---- MODULE Spec2Model ----
(***************************************************************************)
(* A model of src/app.py: the SansCalculator object (setup and its query   *)
(* methods), the search_sans function and the /calculate handler.          *)
(*                                                                         *)
(* Numbers are exact rationals <<n, d>> (d > 0, lowest terms), so that     *)
(* "sums to 1" and "strictly smaller" are statements of exact arithmetic.  *)
(* math.exp and math.log cannot be evaluated exactly; their results are    *)
(* kept as terms over an exact rational argument (see OneMinusExpNeg and   *)
(* NegLogOver), from which sign and order are derived; the two values at   *)
(* which 1 - exp(-x) is an exact double (0.0 and 1.0) are those numbers.   *)
(***************************************************************************)
EXTENDS Integers, Sequences, FiniteSets, TLC

VARIABLES
    sans_list,      \* SansCalculator.sans_list: sequence of [name, chance, is_raw]
    server_luck,    \* SansCalculator.server_luck
    fresh,          \* a calculator built anew from the most recent setup's arguments
    args_intact,    \* the most recent setup left the caller's arguments as passed
    call,           \* the most recent method call on the calculator and its arguments
    result,         \* the outcome of that call: a value or a raised exception
    defaults,       \* the module globals DEFAULT_SANS_DATA, DEFAULT_*_SANS
    search_in,      \* search_sans: its arguments (query, sans_list)
    search_out,     \* search_sans: its outcome
    request,        \* /calculate: the JSON body of the request
    response        \* /calculate: what the handler answers

vars == <<sans_list, server_luck, fresh, args_intact, call, result, defaults,
          search_in, search_out, request, response>>

calcVars == <<sans_list, server_luck, fresh, args_intact, call, result>>
searchVars == <<search_in, search_out>>
httpVars == <<request, response>>

(***************************************************************************)
(* Bounds of the model.                                                    *)
(***************************************************************************)
MaxChance == 2
MaxLuck == 2

(***************************************************************************)
(* Exact rational arithmetic.                                              *)
(***************************************************************************)
Abs(x) == IF x < 0 THEN 0 - x ELSE x

RECURSIVE GCD(_, _)
GCD(a, b) == IF b = 0 THEN a ELSE GCD(b, a % b)

Rat(n, d) ==
    LET s == IF d < 0 THEN 0 - 1 ELSE 1
        g == GCD(Abs(n), Abs(d))
    IN  <<(s * n) \div g, (s * d) \div g>>

Int2Rat(n) == <<n, 1>>
RZero == <<0, 1>>
ROne == <<1, 1>>
RAdd(a, b) == Rat(a[1] * b[2] + b[1] * a[2], a[2] * b[2])
RSub(a, b) == Rat(a[1] * b[2] - b[1] * a[2], a[2] * b[2])
RMul(a, b) == Rat(a[1] * b[1], a[2] * b[2])
RDiv(a, b) == Rat(a[1] * b[2], a[2] * b[1])
RLess(a, b) == a[1] * b[2] < b[1] * a[2]
RLeq(a, b) == a[1] * b[2] <= b[1] * a[2]
RMax(a, b) == IF RLess(a, b) THEN b ELSE a

RECURSIVE RSum(_)
RSum(s) == IF s = <<>> THEN RZero ELSE RAdd(Head(s), RSum(Tail(s)))

(***************************************************************************)
(* Outcomes of a call, and ordered dictionaries (a Python dict keeps       *)
(* insertion order): a sequence of <<key, value>> with distinct keys.      *)
(***************************************************************************)
Value(v) == [kind |-> "value", value |-> v]
Raise(e) == [kind |-> "raise", exc |-> e]
Pending == [kind |-> "pending"]     \* a call that has not been made yet
Sym(f, args) == <<"sym", f, args>>      \* a number known as a term, not a rational
Inf == Sym("inf", <<>>)
None == "None"

Keys(d) == {d[i][1] : i \in DOMAIN d}
Get(d, k) == d[CHOOSE i \in DOMAIN d : d[i][1] = k][2]

RECURSIVE DictSet(_, _, _)
DictSet(d, k, v) ==
    IF d = <<>> THEN <<<<k, v>>>>
    ELSE IF Head(d)[1] = k THEN <<<<k, v>>>> \o Tail(d)
    ELSE <<Head(d)>> \o DictSet(Tail(d), k, v)

RECURSIVE DictUpdate(_, _)
DictUpdate(d, e) ==
    IF e = <<>> THEN d
    ELSE DictUpdate(DictSet(d, Head(e)[1], Head(e)[2]), Tail(e))

SeqSet(s) == {s[i] : i \in DOMAIN s}

(***************************************************************************)
(* SansCalculator                                                          *)
(***************************************************************************)
NewCalculator == [sans_list |-> <<>>, server_luck |-> 1]

RECURSIVE SetupAppend(_, _, _, _)
SetupAppend(list, sans_data, raw_set, unobtainable_set) ==
    IF sans_data = <<>> THEN list
    ELSE LET name == Head(sans_data)[1]
             chance == Head(sans_data)[2]
         IN  IF name \in unobtainable_set
             THEN SetupAppend(list, Tail(sans_data), raw_set, unobtainable_set)
             ELSE SetupAppend(
                    Append(list, [name |-> name, chance |-> chance,
                                  is_raw |-> name \in raw_set]),
                    Tail(sans_data), raw_set, unobtainable_set)

\* setup without the assignment of line 94
setup_accumulating(self, sans_data, raw_sans, unobtainable_sans, luck) ==
    [sans_list |-> SetupAppend(self.sans_list, sans_data,
                               SeqSet(raw_sans), SeqSet(unobtainable_sans)),
     server_luck |-> luck]

setup(self, sans_data, raw_sans, unobtainable_sans, luck) ==
    [sans_list |-> SetupAppend(<<>>, sans_data,
                               SeqSet(raw_sans), SeqSet(unobtainable_sans)),
     server_luck |-> luck]

setup_args_after(sans_data, raw_sans, unobtainable_sans) ==
    <<sans_data, raw_sans, unobtainable_sans>>

\* lines 120-124 without the floor of line 127
EffectiveChanceUnfloored(sans, luck) ==
    IF ~sans.is_raw THEN RDiv(Int2Rat(sans.chance), Int2Rat(luck))
    ELSE Int2Rat(sans.chance)

\* lines 120-127: the chance the normalized probability is computed from
EffectiveChance(sans, luck) ==
    LET chance == IF ~sans.is_raw
                  THEN RDiv(Int2Rat(sans.chance), Int2Rat(luck))
                  ELSE Int2Rat(sans.chance)
    IN  RMax(ROne, chance)

SuccessProb(sans, luck) == RDiv(ROne, EffectiveChance(sans, luck))

\* lines 138 and 144: luck / chance, the chance not floored
IndividualProb(sans, luck) ==
    IF sans.is_raw THEN RDiv(ROne, Int2Rat(sans.chance))
    ELSE RDiv(Int2Rat(luck), Int2Rat(sans.chance))

TotalWeight(list, luck) ==
    RSum([i \in DOMAIN list |-> IndividualProb(list[i], luck)])

\* the total of line 138 in the place of the total of line 132
TotalUnfloored(list, luck) == TotalWeight(list, luck)

Total(list, luck) ==
    RSum([i \in DOMAIN list |-> SuccessProb(list[i], luck)])

\* lines 133-135: divided by the total when the total is positive
Normalize(success_prob, total) ==
    IF RLess(RZero, total) THEN RDiv(success_prob, total) ELSE success_prob

FinalProb(list, luck, i) == Normalize(SuccessProb(list[i], luck), Total(list, luck))

\* lines 145-152: one item's entry of the probabilities dict
ProbEntry(sans, final_prob, individual_prob) ==
    [probability |-> final_prob,
     percentage |-> RMul(final_prob, Int2Rat(100)),
     individual_probability |-> individual_prob,
     individual_percentage |-> RMul(individual_prob, Int2Rat(100)),
     is_raw |-> sans.is_raw,
     chance |-> sans.chance]

\* line 124 divides by server_luck, lines 138 and 144 by the item's chance
DividesByZero(list, luck) ==
    \/ \E i \in DOMAIN list : ~list[i].is_raw /\ luck = 0
    \/ \E i \in DOMAIN list : list[i].chance = 0

calculate_probabilities(self) ==
    IF self.sans_list = <<>> THEN Value([probs |-> <<>>, total_weight |-> RZero])
    ELSE IF DividesByZero(self.sans_list, self.server_luck)
    THEN Raise("ZeroDivisionError")
    ELSE Value([
        probs |-> [i \in DOMAIN self.sans_list |->
            <<self.sans_list[i].name,
              ProbEntry(self.sans_list[i],
                        FinalProb(self.sans_list, self.server_luck, i),
                        IndividualProb(self.sans_list[i], self.server_luck))>>],
        total_weight |-> TotalWeight(self.sans_list, self.server_luck)])

(***************************************************************************)
(* The query methods.  Results of math.exp and math.log are terms over an  *)
(* exact argument; exp(-0) = 1 and log(1) = 0 are exact in floating point  *)
(* too, so those two cases are the number 0.                               *)
(***************************************************************************)
avg_sans_per_event == 16
time_per_roll == <<66, 25>>     \* 2.64
events_per_second == RDiv(ROne, time_per_roll)
default_certainty == <<99, 100>>

IsRat(v) == Len(v) = 2
\* In double precision 1 - exp(-x) is exactly 1.0 once exp(-x) <= 2^-54, that is
\* from x = 54 ln 2 = 37.43 on.
SaturationAt == <<3743, 100>>
OneMinusExpNeg(x) ==
    IF x = RZero THEN RZero
    ELSE IF RLeq(SaturationAt, x) THEN ROne
    ELSE Sym("1-exp(-x)", <<x>>)
NegLogOver(x, r) ==
    IF x = ROne THEN RZero ELSE Sym("-ln(x)/r", <<x, r>>)
Times100(p) == IF IsRat(p) THEN RMul(p, Int2Rat(100))
               ELSE Sym("100*(1-exp(-x))", p[3])

\* Each method is split in two: the calls it makes (the operator named as the
\* method) and what it does with their outcomes (the operator named ...Of).
ExpectedPerEventOf(p, target_sans) ==
    IF p.kind = "raise" THEN p
    ELSE IF target_sans # None
    THEN IF target_sans \in Keys(p.value.probs)
         THEN Value(RMul(Int2Rat(avg_sans_per_event),
                         Get(p.value.probs, target_sans).probability))
         ELSE Raise("KeyError")
    ELSE Value([i \in DOMAIN p.value.probs |->
            <<p.value.probs[i][1],
              RMul(Int2Rat(avg_sans_per_event), p.value.probs[i][2].probability)>>])

expected_per_event(self, target_sans) ==
    ExpectedPerEventOf(calculate_probabilities(self), target_sans)

AtLeastOne(lambda_total) == <<OneMinusExpNeg(lambda_total), lambda_total>>

ProbabilityInTimeOf(p, e, target_sans, time_seconds) ==
    IF p.kind = "raise" THEN p
    ELSE IF target_sans \notin Keys(p.value.probs) THEN Value(<<RZero, RZero>>)
    ELSE IF e.kind = "raise" THEN e
    ELSE Value(AtLeastOne(RMul(e.value, RMul(events_per_second, time_seconds))))

probability_in_time(self, target_sans, time_seconds) ==
    ProbabilityInTimeOf(calculate_probabilities(self),
                        expected_per_event(self, target_sans),
                        target_sans, time_seconds)

TimeForExpectedFirstOf(e, target_sans) ==
    IF e.kind = "raise" THEN e
    ELSE IF target_sans = None THEN Raise("TypeError")   \* dict <= 0
    ELSE IF RLeq(e.value, RZero) THEN Value(Inf)
    ELSE Value(RDiv(ROne, RMul(e.value, events_per_second)))

time_for_expected_first(self, target_sans) ==
    TimeForExpectedFirstOf(expected_per_event(self, target_sans), target_sans)

\* line 205: math.log raises ValueError on an argument <= 0
LogTime(x, lambda_rate) ==
    IF RLeq(x, RZero) THEN Raise("ValueError") ELSE Value(NegLogOver(x, lambda_rate))

TimeForCertaintyOf(e, target_sans, certainty) ==
    IF e.kind = "raise" THEN e
    ELSE IF target_sans = None THEN Raise("TypeError")   \* dict <= 0
    ELSE IF RLeq(e.value, RZero) THEN Value(Inf)
    ELSE LogTime(RSub(ROne, certainty), RMul(e.value, events_per_second))

time_for_certainty(self, target_sans, certainty) ==
    TimeForCertaintyOf(expected_per_event(self, target_sans), target_sans, certainty)

AllInTimeEntry(pit, time_first, time_99, pr) ==
    [probability_percent |-> Times100(pit.value[1]),
     expected_count |-> pit.value[2],
     time_first_seconds |-> time_first.value,
     time_99_percent_seconds |-> time_99.value,
     base_probability |-> pr.percentage,
     individual_probability |-> pr.individual_percentage,
     is_raw |-> pr.is_raw]

ProbabilityAllInTimeOf(self, p, time_seconds) ==
    IF p.kind = "raise" THEN p
    ELSE Value([i \in DOMAIN p.value.probs |->
            <<p.value.probs[i][1],
              AllInTimeEntry(
                probability_in_time(self, p.value.probs[i][1], time_seconds),
                time_for_expected_first(self, p.value.probs[i][1]),
                time_for_certainty(self, p.value.probs[i][1], default_certainty),
                p.value.probs[i][2])>>])

probability_all_in_time(self, time_seconds) ==
    ProbabilityAllInTimeOf(self, calculate_probabilities(self), time_seconds)

(***************************************************************************)
(* The calls a client makes on one SansCalculator.                         *)
(***************************************************************************)
Names == {"Little", "classic"}
Chances == 0 .. MaxChance
Lucks == 0 .. MaxLuck          \* int(data.get('server_luck', 8)): any integer
SetupLucks == 1 .. MaxLuck     \* the luck a caller of setup passes
Targets == Names \cup {None}
Times == {RZero, <<3600, 1>>}
Certainties == {<<0 - 1, 1>>, RZero, <<1, 2>>, ROne}

\* every ordered dict with keys among S and values among V
RECURSIVE DictsOver(_, _)
DictsOver(S, V) ==
    {<<>>} \cup UNION {
        {<<<<k, v>>>> \o d : v \in V, d \in DictsOver(S \ {k}, V)} : k \in S}

Catalogs == DictsOver(Names, Chances)
RawLists == {<<>>, <<"Little">>, <<"classic">>, <<"Little", "classic">>}
UnobtainableLists == {<<>>, <<"classic">>}

Self == [sans_list |-> sans_list, server_luck |-> server_luck]

Call(op, target, time, certainty) ==
    [op |-> op, target |-> target, time |-> time, certainty |-> certainty]

QueryOps == {"calculate_probabilities", "expected_per_event", "probability_in_time",
             "time_for_expected_first", "time_for_certainty",
             "probability_all_in_time"}

\* what the call c returns, or raises, on the calculator self
Outcome(self, c) ==
    CASE c.op = "calculate_probabilities" -> calculate_probabilities(self)
      [] c.op = "expected_per_event" -> expected_per_event(self, c.target)
      [] c.op = "probability_in_time" -> probability_in_time(self, c.target, c.time)
      [] c.op = "time_for_expected_first" -> time_for_expected_first(self, c.target)
      [] c.op = "time_for_certainty" ->
             time_for_certainty(self, c.target, c.certainty)
      [] c.op = "probability_all_in_time" -> probability_all_in_time(self, c.time)
      [] OTHER -> Value(None)

\* The global tables, cut to the entries the model needs: the first two items
\* of DEFAULT_SANS_DATA and one item that is both unobtainable and RAW; "clown"
\* is unobtainable by default and enters the catalog only through custom_sans.
CTI == "CTI (corrupted true insanity)"
DEFAULT_SANS_DATA == <<<<"Little", 2>>, <<"classic", 3>>, <<CTI, 15000000>>>>
DEFAULT_UNOBTAINABLE_SANS == <<CTI, "clown">>
DEFAULT_RAW_SANS == <<CTI>>
DEFAULT_BLACKLISTED_SANS == <<>>

InitDefaults ==
    [sans_data |-> DEFAULT_SANS_DATA,
     unobtainable |-> DEFAULT_UNOBTAINABLE_SANS,
     raw |-> DEFAULT_RAW_SANS,
     blacklisted |-> DEFAULT_BLACKLISTED_SANS]

CalcInit ==
    /\ sans_list = NewCalculator.sans_list
    /\ server_luck = NewCalculator.server_luck
    /\ fresh = NewCalculator
    /\ args_intact = TRUE
    /\ call = Call("__init__", None, None, None)
    /\ result = Value(None)

Setup(sans_data, raw_sans, unobtainable_sans, luck) ==
    /\ sans_list' = setup(Self, sans_data, raw_sans, unobtainable_sans, luck).sans_list
    /\ server_luck' =
           setup(Self, sans_data, raw_sans, unobtainable_sans, luck).server_luck
    /\ fresh' = setup(NewCalculator, sans_data, raw_sans, unobtainable_sans, luck)
    /\ args_intact' = (setup_args_after(sans_data, raw_sans, unobtainable_sans)
                        = <<sans_data, raw_sans, unobtainable_sans>>)
    /\ call' = Call("setup", None, None, None)
    /\ result' = Value(None)
    /\ UNCHANGED <<defaults, searchVars, httpVars>>

\* a query method: its outcome is handed to the caller, the object is not assigned
Query(c, outcome) ==
    /\ call' = c
    /\ result' = outcome
    /\ UNCHANGED <<sans_list, server_luck, fresh, args_intact>>
    /\ UNCHANGED <<defaults, searchVars, httpVars>>

DoSetup ==
    \E sans_data \in Catalogs, raw_sans \in RawLists,
       unobtainable_sans \in UnobtainableLists, luck \in SetupLucks :
        Setup(sans_data, raw_sans, unobtainable_sans, luck)

CalculateProbabilities ==
    Query(Call("calculate_probabilities", None, None, None),
          calculate_probabilities(Self))
ExpectedPerEvent ==
    \E t \in Targets :
        Query(Call("expected_per_event", t, None, None), expected_per_event(Self, t))
ProbabilityInTime ==
    \E t \in Targets, s \in Times :
        Query(Call("probability_in_time", t, s, None), probability_in_time(Self, t, s))
TimeForExpectedFirst ==
    \E t \in Targets :
        Query(Call("time_for_expected_first", t, None, None),
              time_for_expected_first(Self, t))
TimeForCertainty ==
    \E t \in Targets, c \in Certainties :
        Query(Call("time_for_certainty", t, None, c), time_for_certainty(Self, t, c))
ProbabilityAllInTime ==
    \E s \in Times :
        Query(Call("probability_all_in_time", None, s, None),
              probability_all_in_time(Self, s))

Init ==
    /\ CalcInit
    /\ defaults = InitDefaults
    /\ search_in = None /\ search_out = None
    /\ request = None /\ response = None

Next ==
    \/ DoSetup
    \/ CalculateProbabilities
    \/ ExpectedPerEvent
    \/ ProbabilityInTime
    \/ TimeForExpectedFirst
    \/ TimeForCertainty
    \/ ProbabilityAllInTime

Spec == Init /\ [][Next]_vars

(***************************************************************************)
(* Claims about the SansCalculator, checked under Spec.                    *)
(***************************************************************************)
Probs == result.value.probs
JustRan(op) == call.op = op
\* every nominal chance is positive and the luck is at least 1
WellFormed == server_luck >= 1 /\ \A i \in DOMAIN sans_list : sans_list[i].chance > 0
InWorkingSet(name) == \E i \in DOMAIN sans_list : sans_list[i].name = name

\* C1: after calculate_probabilities on a non-empty working set with positive
\* chances and luck >= 1 the 'probability' fields sum to exactly 1; on an empty
\* working set the result is the empty mapping with total weight 0.
C1_NormalizedSumsToOne ==
    JustRan("calculate_probabilities") =>
        /\ sans_list = <<>> =>
               result = Value([probs |-> <<>>, total_weight |-> RZero])
        /\ (sans_list # <<>> /\ WellFormed) =>
               /\ result.kind = "value"
               /\ RSum([i \in DOMAIN Probs |-> Probs[i][2].probability]) = ROne

\* C1 witness: two items, one of them NORMAL with its chance below the luck (so
\* the floor at 1 acts), and the distribution has been computed.
C1_Witness ==
    /\ JustRan("calculate_probabilities")
    /\ WellFormed
    /\ Len(sans_list) = 2
    /\ \E i \in DOMAIN sans_list :
           ~sans_list[i].is_raw /\ sans_list[i].chance < server_luck
    /\ result.kind = "value"

\* C2 (as claimed): a NORMAL item's individual_probability is
\* 1 / max(1, chance / luck), hence at most 1; a RAW item's is 1 / chance.
C2_IndividualProbabilityFloored ==
    (JustRan("calculate_probabilities") /\ WellFormed /\ sans_list # <<>>) =>
        \A i \in DOMAIN sans_list :
            /\ Probs[i][2].individual_probability =
                 (IF sans_list[i].is_raw
                  THEN RDiv(ROne, Int2Rat(sans_list[i].chance))
                  ELSE RDiv(ROne, RMax(ROne, RDiv(Int2Rat(sans_list[i].chance),
                                                  Int2Rat(server_luck)))))
            /\ RLeq(Probs[i][2].individual_probability, ROne)

\* C3 (as claimed): with luck >= 1, whatever the chances (0 included), no
\* exception escapes calculate_probabilities.
C3_NoDivisionByZero ==
    (JustRan("calculate_probabilities") /\ server_luck >= 1) => result.kind = "value"

\* C4 (as claimed): for a name in the working set and a certainty outside
\* [0, 1), time_for_certainty never returns a number.
C4_CertaintyOutOfRangeRejected ==
    (/\ JustRan("time_for_certainty")
     /\ WellFormed
     /\ InWorkingSet(call.target)
     /\ (RLess(call.certainty, RZero) \/ RLeq(ROne, call.certainty)))
        => result.kind # "value"

\* C5 (as claimed): a per-item operation asked about a name that is not in the
\* distribution neither returns an ordinary result nor lets an exception escape.
C5_AbsentNameIsNotFound ==
    (/\ call.op \in {"expected_per_event", "probability_in_time",
                     "time_for_expected_first", "time_for_certainty"}
     /\ call.target \in Names
     /\ ~InWorkingSet(call.target)
     /\ WellFormed)
        => result.kind \notin {"value", "raise"}

\* the working set with item i's nominal chance raised to c
Raised(i, c) == [Self EXCEPT !.sans_list[i].chance = c]
RaisedProb(i, c) == calculate_probabilities(Raised(i, c)).value.probs[i][2].probability
HigherChances(i) == (sans_list[i].chance + 1) .. (MaxChance + 1)
\* the chance up to which the floor at 1 hides the nominal chance
FloorReach(i) == IF sans_list[i].is_raw THEN 1 ELSE server_luck

\* C6 (as claimed): raising one item's nominal chance, all else fixed, strictly
\* lowers its normalized probability.
C6_StrictlyDecreasing ==
    (JustRan("calculate_probabilities") /\ WellFormed) =>
        \A i \in DOMAIN sans_list : \A c \in HigherChances(i) :
            RLess(RaisedProb(i, c), Probs[i][2].probability)

\* C6 (amended): raising one item's nominal chance never raises its normalized
\* probability, and lowers it strictly exactly when the working set holds another
\* item and the raised chance exceeds the luck (NORMAL) or 1 (RAW).
C6_NonIncreasing ==
    (JustRan("calculate_probabilities") /\ WellFormed) =>
        \A i \in DOMAIN sans_list : \A c \in HigherChances(i) :
            /\ RLeq(RaisedProb(i, c), Probs[i][2].probability)
            /\ RLess(RaisedProb(i, c), Probs[i][2].probability)
                 <=> (Len(sans_list) >= 2 /\ c > FloorReach(i))

\* C6 witness: a computed distribution over two items in which raising a NORMAL
\* item's chance stays within the luck, and raising the other item's does not.
C6_Witness ==
    /\ JustRan("calculate_probabilities")
    /\ WellFormed
    /\ Len(sans_list) = 2
    /\ \E i \in DOMAIN sans_list : \E c \in HigherChances(i) :
           ~sans_list[i].is_raw /\ c <= server_luck
    /\ \E i \in DOMAIN sans_list : \E c \in HigherChances(i) : c > FloorReach(i)

\* C10: in every state the calculator's fields are those of a calculator built
\* anew from the most recent setup's arguments, the arguments and the global
\* tables are as they were, and the outcome of a query is the outcome of the
\* same query on that new calculator.
C10_QueriesArePure ==
    /\ sans_list = fresh.sans_list
    /\ server_luck = fresh.server_luck
    /\ args_intact
    /\ defaults = InitDefaults
    /\ call.op \in QueryOps => result = Outcome(fresh, call)

\* C10 witness: a query on all items has answered on a configured calculator.
C10_Witness ==
    /\ JustRan("probability_all_in_time")
    /\ Len(sans_list) = 2
    /\ server_luck = 2
    /\ result.kind = "value"

(***************************************************************************)
(* search_sans.  A string is a sequence of characters; the alphabet holds  *)
(* a lower-case and an upper-case letter and two characters that are not   *)
(* word characters and that mean something in a regular expression.        *)
(***************************************************************************)
MaxQueryLen == 2
MaxNameLen == 3
MaxListLen == 2

Alphabet == {"a", "A", ".", "("}
Lower(c) == IF c = "A" THEN "a" ELSE c
IsWordChar(c) == c \in {"a", "A"}
Ord(c) == CASE c = "(" -> 40 [] c = "." -> 46 [] c = "A" -> 65 [] c = "a" -> 97

StrLower(str) == [i \in DOMAIN str |-> Lower(str[i])]
Take(seq, n) == SubSeq(seq, 1, IF n < Len(seq) THEN n ELSE Len(seq))

\* str < other in Python's order of strings (by code point, a prefix first)
RECURSIVE StrLess(_, _)
StrLess(str, other) ==
    IF other = <<>> THEN FALSE
    ELSE IF str = <<>> THEN TRUE
    ELSE IF Head(str) # Head(other) THEN Ord(Head(str)) < Ord(Head(other))
    ELSE StrLess(Tail(str), Tail(other))

StartsWith(str, prefix) ==
    Len(prefix) <= Len(str) /\ SubSeq(str, 1, Len(prefix)) = prefix

\* prefix occurs in str right after its first n characters
OccursAt(str, sub, n) ==
    n + Len(sub) <= Len(str) /\ SubSeq(str, n + 1, n + Len(sub)) = sub

Contains(str, sub) == \E n \in 0 .. Len(str) : OccursAt(str, sub, n)

\* \b after the first n characters of str
WordBoundary(str, n) ==
    (n >= 1 /\ IsWordChar(str[n])) # (n < Len(str) /\ IsWordChar(str[n + 1]))

\* re.search(r'\b' + re.escape(query) + r'\b', str)
WordMatch(str, query) ==
    \E n \in 0 .. Len(str) :
        /\ OccursAt(str, query, n)
        /\ WordBoundary(str, n)
        /\ WordBoundary(str, n + Len(query))

\* '.*'.join(query) is compiled as written: '(' opens a group that nothing closes
PatternCompiles(query) == \A i \in DOMAIN query : query[i] # "("

\* one character of the pattern against one of the string: '.' matches any
PatternCharMatches(pc, c) == pc = "." \/ pc = c

\* re.search('.*'.join(query), str), for a pattern that compiles
RECURSIVE FuzzyMatch(_, _)
FuzzyMatch(str, query) ==
    IF query = <<>> THEN TRUE
    ELSE IF str = <<>> THEN FALSE
    ELSE IF PatternCharMatches(Head(query), Head(str))
    THEN FuzzyMatch(Tail(str), Tail(query))
    ELSE FuzzyMatch(Tail(str), query)

Score(n, d) == Rat(n, d)
NoMatch == RZero
ReError == Raise("re.error")

\* lines 62-76: the score of one name, or the exception re raises
ScoreOf(sans_lower, query) ==
    IF sans_lower = query THEN Value(Score(1, 1))
    ELSE IF StartsWith(sans_lower, query) THEN Value(Score(4, 5))
    ELSE IF WordMatch(sans_lower, query) THEN Value(Score(3, 5))
    ELSE IF Contains(sans_lower, query) THEN Value(Score(2, 5))
    ELSE IF ~PatternCompiles(query) THEN ReError
    ELSE IF FuzzyMatch(sans_lower, query) THEN Value(Score(1, 5))
    ELSE Value(NoMatch)

\* line 82: the sort key (-score, name)
KeyLess(x, y) == RLess(y[2], x[2]) \/ (x[2] = y[2] /\ StrLess(x[1], y[1]))

\* list.sort is stable: x goes after the entries that are not greater than it
RECURSIVE InsertByKey(_, _)
InsertByKey(sorted, x) ==
    IF sorted = <<>> THEN <<x>>
    ELSE IF KeyLess(x, Head(sorted)) THEN <<x>> \o sorted
    ELSE <<Head(sorted)>> \o InsertByKey(Tail(sorted), x)

RECURSIVE SortByKey(_)
SortByKey(seq) ==
    IF seq = <<>> THEN <<>>
    ELSE InsertByKey(SortByKey(SubSeq(seq, 1, Len(seq) - 1)), seq[Len(seq)])

EmptyQueryLimit == 10
ResultLimit == 15

\* lines 58-79: the scored names, in the order of the list
RECURSIVE Matches(_, _)
Matches(names, query) ==
    IF names = <<>> THEN <<>>
    ELSE IF ScoreOf(StrLower(Head(names)), query).value = NoMatch
    THEN Matches(Tail(names), query)
    ELSE <<<<Head(names), ScoreOf(StrLower(Head(names)), query).value>>>>
            \o Matches(Tail(names), query)

search_sans(query, names) ==
    IF query = <<>>
    THEN Value([i \in DOMAIN Take(names, EmptyQueryLimit) |-> <<names[i], RZero>>])
    ELSE IF \E i \in DOMAIN names :
                ScoreOf(StrLower(names[i]), StrLower(query)).kind = "raise"
    THEN ReError
    ELSE Value(Take(SortByKey(Matches(names, StrLower(query))), ResultLimit))

RECURSIVE Strings(_)
Strings(n) ==
    IF n = 0 THEN {<<>>}
    ELSE Strings(n - 1) \cup {Append(str, c) : str \in Strings(n - 1), c \in Alphabet}

RECURSIVE ListsOf(_, _)
ListsOf(S, n) ==
    IF n = 0 THEN {<<>>}
    ELSE ListsOf(S, n - 1) \cup {Append(l, x) : l \in ListsOf(S, n - 1), x \in S}

SearchInit ==
    /\ search_in \in [query : Strings(MaxQueryLen),
                      sans_list : ListsOf(Strings(MaxNameLen), MaxListLen)]
    /\ search_out = Pending

SearchSans ==
    /\ search_out.kind = "pending"
    /\ search_out' = search_sans(search_in.query, search_in.sans_list)
    /\ UNCHANGED <<search_in, calcVars, defaults, httpVars>>

InitSearch ==
    /\ CalcInit
    /\ defaults = InitDefaults
    /\ SearchInit
    /\ request = None /\ response = None

NextSearch == SearchSans

SpecSearch == InitSearch /\ [][NextSearch]_vars

\* the query, lower-cased, occurs in the name, lower-cased, as a subsequence
RECURSIVE IsSubsequence(_, _)
IsSubsequence(str, query) ==
    IF query = <<>> THEN TRUE
    ELSE IF str = <<>> THEN FALSE
    ELSE IF Head(query) = Head(str) THEN IsSubsequence(Tail(str), Tail(query))
    ELSE IsSubsequence(Tail(str), query)

\* the score the tiers give a name: the highest tier it matches, 0 for none
TierScore(name, query) ==
    LET n == StrLower(name)
        q == StrLower(query)
    IN  IF n = q THEN Rat(1, 1)
        ELSE IF StartsWith(n, q) THEN Rat(4, 5)
        ELSE IF WordMatch(n, q) THEN Rat(3, 5)
        ELSE IF Contains(n, q) THEN Rat(2, 5)
        ELSE IF IsSubsequence(n, q) THEN Rat(1, 5)
        ELSE RZero

Searched == search_out.kind # "pending" /\ search_in.query # <<>>

\* C7 (as claimed): for a non-empty query search_sans raises nothing, returns
\* every name with the score of the highest tier it matches, and returns no
\* name that matches no tier.
C7_TieredScores ==
    Searched =>
        /\ search_out.kind = "value"
        /\ \A i \in DOMAIN search_out.value :
               /\ search_out.value[i][2] =
                      TierScore(search_out.value[i][1], search_in.query)
               /\ search_out.value[i][2] # RZero
        /\ \A i \in DOMAIN search_in.sans_list :
               TierScore(search_in.sans_list[i], search_in.query) # RZero =>
                   \E j \in DOMAIN search_out.value :
                       search_out.value[j][1] = search_in.sans_list[i]

(***************************************************************************)
(* The /calculate handler.  A JSON value of the request is a record with   *)
(* its type; "other" is any value that is neither a list nor a dict.       *)
(***************************************************************************)
JsonList(items) == [type |-> "list", items |-> items]
JsonDict(items) == [type |-> "dict", items |-> items]
JsonOther == [type |-> "other", items |-> <<>>]

\* lines 277-284: a value that is not a list is replaced by []
AsList(v) == IF v.type = "list" THEN v.items ELSE <<>>

\* lines 272-274
MergedSansData(defs, custom_sans) ==
    IF custom_sans.type = "dict" THEN DictUpdate(defs.sans_data, custom_sans.items)
    ELSE defs.sans_data

\* lines 287-289
RawSans(defs, data) == defs.raw \o AsList(data.custom_raw)
UnobtainableSans(defs, data) == defs.unobtainable \o AsList(data.custom_unobtainable)
BlacklistedSans(defs, data) == defs.blacklisted \o AsList(data.custom_blacklisted)

\* lines 292-293
Calculator(defs, data) ==
    setup(NewCalculator, MergedSansData(defs, data.custom_sans),
          RawSans(defs, data), UnobtainableSans(defs, data), data.server_luck)

\* the tables after lines 272-289: .copy() and + build new objects
defaults_after(defs, data) == defs

RankLimit == 20

\* sorted(..., key) is stable; keyed is a sequence of <<key, item>>, key a rational
RECURSIVE InsertAscending(_, _)
InsertAscending(sorted, x) ==
    IF sorted = <<>> THEN <<x>>
    ELSE IF RLess(x[1], Head(sorted)[1]) THEN <<x>> \o sorted
    ELSE <<Head(sorted)>> \o InsertAscending(Tail(sorted), x)

RECURSIVE SortAscending(_)
SortAscending(keyed) ==
    IF keyed = <<>> THEN <<>>
    ELSE InsertAscending(SortAscending(SubSeq(keyed, 1, Len(keyed) - 1)),
                         keyed[Len(keyed)])

Items(keyed) == [i \in DOMAIN keyed |-> keyed[i][2]]
RNeg(a) == <<0 - a[1], a[2]>>

\* The order of probability_percent values: 0, then 100 * (1 - exp(-x)) in the
\* order of x (all x below SaturationAt), then 100.
PercentKey(percent) ==
    IF ~IsRat(percent) THEN percent[3][1]
    ELSE IF percent = RZero THEN RZero
    ELSE SaturationAt

RECURSIVE SelectSeq2(_, _)
SelectSeq2(seq, excluded) ==
    IF seq = <<>> THEN <<>>
    ELSE IF Head(seq)[1] \in excluded THEN SelectSeq2(Tail(seq), excluded)
    ELSE <<Head(seq)>> \o SelectSeq2(Tail(seq), excluded)

\* lines 305-306 without their condition
FilterNothing(all_probabilities, blacklisted_sans) == all_probabilities

\* lines 305-306: the (name, data) pairs whose name is not blacklisted
FilterBlacklisted(all_probabilities, blacklisted_sans) ==
    SelectSeq2(all_probabilities, SeqSet(blacklisted_sans))

\* line 309: by probability_percent, descending (reverse=True keeps ties in order)
SortedByProb(filtered) ==
    Take(Items(SortAscending([i \in DOMAIN filtered |->
            <<RNeg(PercentKey(filtered[i][2].probability_percent)), filtered[i]>>])),
         RankLimit)

\* line 310: by base_probability, ascending
SortedByRarity(filtered) ==
    Take(Items(SortAscending([i \in DOMAIN filtered |->
            <<filtered[i][2].base_probability, filtered[i]>>])),
         RankLimit)

\* lines 319-327
SelectedEntry(pit, time_first, time_99, pr) ==
    [probability_percent |-> Times100(pit.value[1]),
     expected_count |-> pit.value[2],
     time_first |-> time_first.value,
     time_99_percent |-> time_99.value,
     base_probability |-> pr.percentage,
     individual_probability |-> pr.individual_percentage,
     is_raw |-> pr.is_raw]

\* lines 313-327: names that are not in probs are skipped
RECURSIVE SelectedResults(_, _, _, _)
SelectedResults(calculator, probs, selected_sans, time_seconds) ==
    IF selected_sans = <<>> THEN <<>>
    ELSE IF selected_sans[Len(selected_sans)] \notin Keys(probs)
    THEN SelectedResults(calculator, probs,
                         SubSeq(selected_sans, 1, Len(selected_sans) - 1), time_seconds)
    ELSE DictSet(
            SelectedResults(calculator, probs,
                            SubSeq(selected_sans, 1, Len(selected_sans) - 1),
                            time_seconds),
            selected_sans[Len(selected_sans)],
            SelectedEntry(
                probability_in_time(calculator, selected_sans[Len(selected_sans)],
                                    time_seconds),
                time_for_expected_first(calculator, selected_sans[Len(selected_sans)]),
                time_for_certainty(calculator, selected_sans[Len(selected_sans)],
                                   default_certainty),
                Get(probs, selected_sans[Len(selected_sans)])))

\* lines 330-343
Results(calculator, p, all_probabilities, data, blacklisted_sans) ==
    [total_sans |-> Len(p.probs),
     total_weight |-> p.total_weight,
     server_luck |-> data.server_luck,
     time_seconds |-> data.time_seconds,
     time_per_roll |-> time_per_roll,
     total_rolls |-> RMul(events_per_second, data.time_seconds),
     total_sans_spawned |->
         RMul(RMul(events_per_second, data.time_seconds),
              Int2Rat(avg_sans_per_event)),
     all_probabilities |-> all_probabilities,
     sorted_by_prob |->
         SortedByProb(FilterBlacklisted(all_probabilities, blacklisted_sans)),
     sorted_by_rarity |->
         SortedByRarity(FilterBlacklisted(all_probabilities, blacklisted_sans)),
     selected_results |->
         SelectedResults(calculator, p.probs, AsList(data.selected_sans),
                         data.time_seconds),
     blacklisted_sans |-> blacklisted_sans]

\* lines 345-351: an exception anywhere in the handler is answered as a failure
Answer(calculator, p, all, data, blacklisted_sans) ==
    IF p.kind = "raise" THEN [success |-> FALSE, error |-> p.exc]
    ELSE [success |-> TRUE,
          results |-> Results(calculator, p.value, all.value, data, blacklisted_sans)]

CalculateOn(calculator, data, blacklisted_sans) ==
    Answer(calculator, calculate_probabilities(calculator),
           probability_all_in_time(calculator, data.time_seconds),
           data, blacklisted_sans)

calculate(defs, data) ==
    CalculateOn(Calculator(defs, data), data, BlacklistedSans(defs, data))

\* the requests the model sends
WideNames == <<"w01", "w02", "w03", "w04", "w05", "w06", "w07", "w08", "w09", "w10",
               "w11", "w12", "w13", "w14", "w15", "w16", "w17", "w18", "w19", "w20">>
WideCatalog == [i \in DOMAIN WideNames |-> <<WideNames[i], 1 + (i % MaxChance)>>]

CustomSans ==
    {JsonDict(d) : d \in DictsOver({"clown", "mine"}, 1 .. MaxChance)} \cup {JsonOther}
CustomRaw == {JsonList(<<"mine">>), JsonOther}
CustomUnobtainable == {JsonList(<<"mine">>), JsonOther}
CustomBlacklisted ==
    {JsonList(<<>>), JsonList(<<"Little">>), JsonList(<<"mine", "w20">>), JsonOther}
SelectedSans == {JsonList(<<"Little", "clown", "Little">>), JsonOther}
IncludedLimited == {JsonList(<<>>), JsonList(<<CTI>>)}

\* included_limited is a key the handler does not read: lines 263-269 read the
\* seven others
Requests ==
    [server_luck : Lucks,
     time_seconds : Times,
     custom_sans : CustomSans,
     selected_sans : SelectedSans,
     custom_raw : CustomRaw,
     custom_unobtainable : CustomUnobtainable,
     custom_blacklisted : CustomBlacklisted,
     included_limited : IncludedLimited]
        \cup
    [server_luck : Lucks,
     time_seconds : Times,
     custom_sans : {JsonDict(WideCatalog)},
     selected_sans : {JsonList(<<"w01">>)},
     custom_raw : {JsonList(<<"w02">>)},
     custom_unobtainable : {JsonList(<<>>)},
     custom_blacklisted : CustomBlacklisted,
     included_limited : {JsonList(<<>>)}]

Calculate ==
    /\ response.kind = "pending"
    /\ response' = [kind |-> "answered", body |-> calculate(defaults, request)]
    /\ defaults' = defaults_after(defaults, request)
    /\ UNCHANGED <<request, calcVars, searchVars>>

InitCalculate ==
    /\ CalcInit
    /\ defaults = InitDefaults
    /\ search_in = None /\ search_out = None
    /\ request \in Requests
    /\ response = Pending

NextCalculate == Calculate

SpecCalculate == InitCalculate /\ [][NextCalculate]_vars

(***************************************************************************)
(* Claims about the /calculate handler, checked under SpecCalculate.       *)
(***************************************************************************)
Succeeded == response.kind = "answered" /\ response.body.success
Report == response.body.results
Catalog == MergedSansData(defaults, request.custom_sans)
LimitedNames == SeqSet(UnobtainableSans(defaults, request))
IncludedLimitedNames == SeqSet(AsList(request.included_limited))
BlacklistNames == SeqSet(BlacklistedSans(defaults, request))
WorkingNames == Keys(Report.all_probabilities)

AlsoBlacklisting(name) ==
    [request EXCEPT
        !.custom_blacklisted = JsonList(Append(AsList(request.custom_blacklisted), name))]

Descending(ranking) ==
    \A i, j \in DOMAIN ranking :
        i < j => RLeq(PercentKey(ranking[j][2].probability_percent),
                      PercentKey(ranking[i][2].probability_percent))

Ascending(ranking) ==
    \A i, j \in DOMAIN ranking :
        i < j => RLeq(ranking[i][2].base_probability, ranking[j][2].base_probability)

IsRanking(ranking) ==
    /\ Len(ranking) <= RankLimit
    /\ \A i \in DOMAIN ranking :
           /\ ranking[i][1] \notin BlacklistNames
           /\ \E k \in DOMAIN Report.all_probabilities :
                  Report.all_probabilities[k] = ranking[i]

====
